---- MODULE Spec2Model ----
(***************************************************************************)
(* Model of src/lambda_function.py: the Lambda handler that copies AWS     *)
(* Config log objects of a 7-day window from a source bucket to a          *)
(* destination bucket, decompressing '.gz' objects.                        *)
(*                                                                         *)
(* Strings (ARNs, object keys, list variables) are sequences of            *)
(* one-character strings, so that split / strip / startswith / endswith /  *)
(* contains and slicing are computed character by character as Python and  *)
(* JMESPath compute them.  A datetime is a number of clock ticks,          *)
(* TicksPerDay ticks to the day; its calendar date is the proleptic        *)
(* Gregorian date of its day ordinal (datetime.toordinal).                 *)
(***************************************************************************)
EXTENDS Integers, Sequences, FiniteSets, TLC

(***************************************************************************)
(* Characters and strings                                                  *)
(***************************************************************************)
\* The characters the model's strings use, in ASCII order (the order of an
\* S3 listing is the byte order of the keys).
Alphabet ==
    << " ", ",", "-", ".", "/",
       "0", "1", "2", "3", "4", "5", "6", "7", "8", "9", ":",
       "A", "C", "F", "L", "S", "W",
       "a", "b", "c", "e", "f", "g", "h", "i", "j", "k", "l", "n", "o",
       "r", "s", "t", "u", "w", "y", "z" >>

Ord(c) == CHOOSE i \in 1..Len(Alphabet) : Alphabet[i] = c

Digits == << "0", "1", "2", "3", "4", "5", "6", "7", "8", "9" >>

\* str(n) for a natural number n
RECURSIVE IntToStr(_)
IntToStr(n) ==
    IF n < 10 THEN << Digits[n + 1] >>
    ELSE IntToStr(n \div 10) \o << Digits[(n % 10) + 1] >>

\* s.startswith(p)
StartsWith(s, p) ==
    /\ Len(p) <= Len(s)
    /\ SubSeq(s, 1, Len(p)) = p

\* s.endswith(p)
EndsWith(s, p) ==
    /\ Len(p) <= Len(s)
    /\ SubSeq(s, Len(s) - Len(p) + 1, Len(s)) = p

\* p occurs in s at position i
OccursAt(s, p, i) ==
    /\ i + Len(p) - 1 <= Len(s)
    /\ SubSeq(s, i, i + Len(p) - 1) = p

\* s.find(p) + 1: the first position of p in s, 0 when p does not occur
Find(s, p) ==
    IF \E i \in 1..Len(s) : OccursAt(s, p, i)
    THEN CHOOSE i \in 1..Len(s) :
            /\ OccursAt(s, p, i)
            /\ \A k \in 1..(i - 1) : ~OccursAt(s, p, k)
    ELSE 0

\* p in s  (JMESPath contains(Key, 'p'), Python "p in s"), p non-empty
Contains(s, p) == Find(s, p) # 0

\* s.split(sep, maxsplit): at most maxsplit cuts, left to right
RECURSIVE Split(_, _, _)
Split(s, sep, maxsplit) ==
    IF maxsplit = 0 \/ Find(s, sep) = 0
    THEN << s >>
    ELSE LET i == Find(s, sep) IN
         << SubSeq(s, 1, i - 1) >>
            \o Split(SubSeq(s, i + Len(sep), Len(s)), sep, maxsplit - 1)

\* s.split(sep): no limit on the number of cuts
SplitAll(s, sep) == Split(s, sep, Len(s))

\* s.strip(): leading and trailing blanks removed
RECURSIVE Strip(_)
Strip(s) ==
    IF s = << >> THEN s
    ELSE IF Head(s) = " " THEN Strip(Tail(s))
    ELSE IF s[Len(s)] = " " THEN Strip(SubSeq(s, 1, Len(s) - 1))
    ELSE s

\* a < b in byte order: the first position where the two differ decides,
\* and a proper prefix comes before the longer string
LexLess(a, b) ==
    LET n == IF Len(a) < Len(b) THEN Len(a) ELSE Len(b)
        differ == {i \in 1..n : a[i] # b[i]}
    IN IF differ = {} THEN Len(a) < Len(b)
       ELSE LET first == CHOOSE i \in differ : \A j \in differ : i <= j
            IN Ord(a[first]) < Ord(b[first])

\* the members of a set of strings in byte order
RECURSIVE SortKeys(_)
SortKeys(S) ==
    IF S = {} THEN << >>
    ELSE LET m == CHOOSE x \in S : \A y \in S \ {x} : LexLess(x, y)
         IN << m >> \o SortKeys(S \ {m})

\* sep.join(ss)
RECURSIVE Join(_, _)
Join(ss, sep) ==
    IF ss = << >> THEN << >>
    ELSE IF Len(ss) = 1 THEN ss[1]
    ELSE ss[1] \o sep \o Join(Tail(ss), sep)

(***************************************************************************)
(* Calendar: datetime, timedelta                                           *)
(***************************************************************************)
\* clock ticks to the day: the resolution of datetime.now() in the model
TicksPerDay == 2

\* the date of a datetime as a day ordinal (datetime.toordinal())
OrdinalOf(dt) == dt \div TicksPerDay

\* (year, month, day) of a day ordinal, ordinal 1 being 0001-01-01
YMD(n) ==
    LET z   == n + 305
        era == z \div 146097
        doe == z - era * 146097
        yoe == (doe - (doe \div 1460) + (doe \div 36524) - (doe \div 146096)) \div 365
        doy == doe - (365 * yoe + (yoe \div 4) - (yoe \div 100))
        mp  == (5 * doy + 2) \div 153
        d   == doy - ((153 * mp + 2) \div 5) + 1
        m   == IF mp < 10 THEN mp + 3 ELSE mp - 9
        y   == yoe + era * 400 + (IF m <= 2 THEN 1 ELSE 0)
    IN [year |-> y, month |-> m, day |-> d]

\* the day ordinal of a calendar date (date(y, m, d).toordinal())
OrdinalOfDate(y0, m, d) ==
    LET y   == IF m <= 2 THEN y0 - 1 ELSE y0
        era == y \div 400
        yoe == y - era * 400
        doy == ((153 * (IF m > 2 THEN m - 3 ELSE m + 9) + 2) \div 5) + d - 1
        doe == yoe * 365 + (yoe \div 4) - (yoe \div 100) + doy
    IN era * 146097 + doe - 305

\* timedelta(days = n) in ticks
timedelta(n) == n * TicksPerDay

(***************************************************************************)
(* String constants of the program                                         *)
(***************************************************************************)
Slash == << "/" >>
Colon == << ":" >>
Comma == << "," >>
Empty == << >>

\* common_prefixes[0] = "o-" and common_prefixes[1] = "AWSLogs/"
OrgProbe == << "o", "-" >>
LogsProbe == << "A", "W", "S", "L", "o", "g", "s", "/" >>
common_prefixes == << OrgProbe, LogsProbe >>
\* 'AWSLogs', the token the organization path is cut at
LogsToken == << "A", "W", "S", "L", "o", "g", "s" >>
\* '.gz'
GzSuffix == << ".", "g", "z" >>
\* 'ConfigWritabilityCheckFile'
WritabilityMarker ==
    << "C", "o", "n", "f", "i", "g", "W", "r", "i", "t", "a", "b", "i", "l",
       "i", "t", "y", "C", "h", "e", "c", "k", "F", "i", "l", "e" >>
\* 'Config'
ConfigSegment == << "C", "o", "n", "f", "i", "g" >>

(***************************************************************************)
(* parse_s3_arn and the list variables                                     *)
(***************************************************************************)
\* a slip: the field count is tested against one more than six
parse_s3_arn_seven(arn) ==
    [raised |-> Len(Split(arn, Colon, 5)) < 7,
     bucket_name |-> Empty, prefix |-> Empty]

\* parse_s3_arn(arn): raised is the ValueError of line 21
parse_s3_arn(arn) ==
    LET parts == Split(arn, Colon, 5) IN
    IF Len(parts) < 6
    THEN [raised |-> TRUE, bucket_name |-> Empty, prefix |-> Empty]
    ELSE LET s3_parts == Split(parts[6], Slash, 1) IN
         [raised      |-> FALSE,
          bucket_name |-> s3_parts[1],
          prefix      |-> IF Len(s3_parts) > 1 THEN s3_parts[2] ELSE Empty]

\* [x.strip() for x in list_str.split(',') if x.strip()]
RECURSIVE StripNonEmpty(_)
StripNonEmpty(parts) ==
    IF parts = << >> THEN << >>
    ELSE IF Strip(Head(parts)) # Empty
         THEN << Strip(Head(parts)) >> \o StripNonEmpty(Tail(parts))
         ELSE StripNonEmpty(Tail(parts))

\* a slip: blank entries are kept
ParseListKeepBlank(list_str) == SplitAll(list_str, Comma)

ParseList(list_str) == StripNonEmpty(SplitAll(list_str, Comma))

(***************************************************************************)
(* The object stores as the client sees them                               *)
(***************************************************************************)
\* PaginationConfig MaxItems (10000 in the source) and PageSize (1000 in the
\* source), scaled down so that a listing of a few keys meets both limits.
MaxItems == 2
PageSize == 1

\* the keys of a store that start with prefix, in listing order
ListKeys(keys, prefix) == SortKeys({k \in keys : StartsWith(k, prefix)})

\* the first n members of a sequence
Take(s, n) == SubSeq(s, 1, IF n < Len(s) THEN n ELSE Len(s))

\* list_objects_v2(Prefix = prefix, MaxKeys = max_keys)['Contents'], the
\* empty sequence standing for a response without 'Contents'
list_objects_v2(keys, prefix, max_keys) == Take(ListKeys(keys, prefix), max_keys)

\* the pages of paginate(Prefix = prefix, MaxItems, PageSize): the listing is
\* cut after MaxItems keys and delivered PageSize keys to the page
RECURSIVE Chunks(_, _)
Chunks(s, n) ==
    IF s = << >> THEN << >>
    ELSE << Take(s, n) >> \o Chunks(SubSeq(s, n + 1, Len(s)), n)

paginate(keys, prefix) == Chunks(Take(ListKeys(keys, prefix), MaxItems), PageSize)

\* gzip.decompress: a body is either the gzip stream of some data or not a
\* gzip stream at all
Gz(data) == [gzip |-> TRUE, data |-> data]
NotGz(data) == [gzip |-> FALSE, data |-> data]
gzip_ok(body) == body.gzip
gzip_decompress(body) == body.data

(***************************************************************************)
(* get_org_prefix_for_config                                               *)
(***************************************************************************)
\* What one list_objects_v2 probe can do: answer, raise a ClientError
\* (caught at line 109, the next candidate is tried), or raise anything
\* else (caught at line 117, the resolver returns '').
ProbeOutcomes == {"ok", "client_error", "error"}

\* first_key.split('AWSLogs')[0] + "AWSLogs"
OrgPathOf(first_key) == SplitAll(first_key, LogsToken)[1] \o LogsToken

\* One pass of the loop of lines 90-111: the list_objects_v2 request for
\* candidate i, which does outcome.  The result tells whether the resolver
\* returns after it (lines 106, 109, 115, 119; otherwise the next candidate
\* is tried), the prefix it returns, and whether the request raised.
probe(keys, i, outcome) ==
    IF outcome = "error"
    THEN [done |-> TRUE, prefix |-> Empty, failed |-> TRUE]
    ELSE IF outcome = "client_error"
    THEN [done |-> i = Len(common_prefixes), prefix |-> Empty, failed |-> TRUE]
    ELSE LET contents == list_objects_v2(keys, common_prefixes[i], 1) IN
         IF contents # << >>
         THEN [done   |-> TRUE,
               prefix |-> IF common_prefixes[i] = OrgProbe
                          THEN OrgPathOf(contents[1])
                          ELSE common_prefixes[i],
               failed |-> FALSE]
         ELSE [done |-> i = Len(common_prefixes), prefix |-> Empty,
               failed |-> FALSE]

\* The loop of lines 90-111 from candidate i on, and lines 113-119.
\* outcomes[i] is what the probe of candidate i does.  The result carries
\* the prefix returned and whether a probe raised on the way.
RECURSIVE ProbeFrom(_, _, _, _)
ProbeFrom(keys, outcomes, i, failed) ==
    LET p == probe(keys, i, outcomes[i]) IN
    IF p.done
    THEN [prefix |-> p.prefix, failed |-> failed \/ p.failed]
    ELSE ProbeFrom(keys, outcomes, i + 1, failed \/ p.failed)

get_org_prefix_for_config(keys, outcomes) == ProbeFrom(keys, outcomes, 1, FALSE)

(***************************************************************************)
(* get_date_based_objects                                                  *)
(***************************************************************************)
\* f"{current_date.year}/{current_date.month}/{current_date.day}"
date_pattern(current_date) ==
    LET d == YMD(OrdinalOf(current_date)) IN
    IntToStr(d.year) \o Slash \o IntToStr(d.month) \o Slash \o IntToStr(d.day)

\* f"{org_prefix}/{account_id}/Config"
base_prefix(org_prefix, account_id) ==
    org_prefix \o Slash \o account_id \o Slash \o ConfigSegment

\* a slip: the region list is not applied
region_condition_none(key, region_list) == TRUE

\* contains(Key, '/Config/<reg>/') for some reg of a non-empty region_list;
\* no condition at all for an empty one
region_condition(key, region_list) ==
    \/ region_list = << >>
    \/ \E i \in 1..Len(region_list) :
          Contains(key, Slash \o ConfigSegment \o Slash \o region_list[i] \o Slash)

\* the JMESPath filter of lines 156-161 on one key
jmespath_expression(key, pattern, region_list) ==
    /\ Contains(key, pattern \o Slash)
    /\ ~Contains(key, WritabilityMarker)
    /\ region_condition(key, region_list)

\* the members of one page that pass the filter, in page order
RECURSIVE FilterPage(_, _, _)
FilterPage(page, pattern, region_list) ==
    IF page = << >> THEN << >>
    ELSE (IF jmespath_expression(Head(page), pattern, region_list)
          THEN << Head(page) >> ELSE << >>)
         \o FilterPage(Tail(page), pattern, region_list)

\* account_objects of lines 177-192: the filtered pages, concatenated
RECURSIVE FilterPages(_, _, _)
FilterPages(pages, pattern, region_list) ==
    IF pages = << >> THEN << >>
    ELSE FilterPage(Head(pages), pattern, region_list)
         \o FilterPages(Tail(pages), pattern, region_list)

account_objects(keys, org_prefix, account_id, current_date, region_list) ==
    FilterPages(paginate(keys, base_prefix(org_prefix, account_id)),
                date_pattern(current_date), region_list)

(***************************************************************************)
(* The environment of an invocation                                        *)
(***************************************************************************)
\* SOURCE_BUCKET_ARN values: a bucket, a bucket with a path, no bucket name
\* (six fields, the last one empty), and one colon short (five fields)
ArnGood ==
    << "a", "r", "n", ":", "a", "w", "s", ":", "s", "3", ":", ":", ":",
       "c", "f", "g", "b", "k", "t" >>
ArnWithPath == ArnGood \o << "/", "l", "o", "g", "s" >>
ArnNoBucket == << "a", "r", "n", ":", "a", "w", "s", ":", "s", "3", ":", ":", ":" >>
ArnShort == << "a", "r", "n", ":", "a", "w", "s", ":", "s", "3", ":", ":" >>
\* the one bucket that exists on the source side
BucketName == << "c", "f", "g", "b", "k", "t" >>

Acct1 == << "1", "1", "1", "1", "1", "1", "1", "1", "1", "1", "1", "1" >>
Acct2 == << "2", "2", "2", "2", "2", "2", "2", "2", "2", "2", "2", "2" >>
UsEast1 == << "u", "s", "-", "e", "a", "s", "t", "-", "1" >>
UsWest2 == << "u", "s", "-", "w", "e", "s", "t", "-", "2" >>
OrgId == << "o", "-", "a", "b", "c" >>
Cfg0 == << "c", "f", "g", "0", ".", "j", "s", "o", "n", ".", "g", "z" >>
Cfg1 == << "c", "f", "g", "1", ".", "j", "s", "o", "n", ".", "g", "z" >>
Cfg2 == << "c", "f", "g", "2", ".", "j", "s", "o", "n", ".", "g", "z" >>
Cfg3 == << "c", "f", "g", "3", ".", "j", "s", "o", "n" >>
Cfg5 == << "c", "f", "g", "5", ".", "j", "s", "o", "n", ".", "g", "z" >>

\* today = 2024-03-05; the window reaches back over 29 February
Today == OrdinalOfDate(2024, 3, 5)

Path(segments) == Join(segments, Slash)
DatePath(y, m, d) == << IntToStr(y), IntToStr(m), IntToStr(d) >>

\* o-abc/AWSLogs/<account>/Config/<region>/<y>/<m>/<d>/<file>
OrgKey(account, region, y, m, d, file) ==
    Path(<< OrgId, LogsToken, account, ConfigSegment, region >>
         \o DatePath(y, m, d) \o << file >>)

KeyEast     == OrgKey(Acct1, UsEast1, 2024, 3, 5, Cfg1)
KeyWest     == OrgKey(Acct1, UsWest2, 2024, 3, 5, Cfg2)
KeyPlain    == OrgKey(Acct1, UsEast1, 2024, 2, 28, Cfg3)
KeyOld      == OrgKey(Acct1, UsEast1, 2024, 2, 26, Cfg0)
KeyAcct2    == OrgKey(Acct2, UsEast1, 2024, 3, 1, Cfg5)
KeyMarker   == OrgKey(Acct1, UsEast1, 2024, 3, 5, WritabilityMarker \o GzSuffix)
\* AWSLogs/o-abc/111111111111/Config/us-east-1/2024/3/5/cfg1.json.gz
KeyScenario ==
    Path(<< LogsToken, OrgId, Acct1, ConfigSegment, UsEast1 >>
         \o DatePath(2024, 3, 5) \o << Cfg1 >>)

\* a source holding the given keys: each body a gzip stream, or none of them
GoodBody(k) == Gz(<< "json", k >>)
BadBody(k) == NotGz(<< "junk", k >>)
GoodStore(keys) == [k \in keys |-> GoodBody(k)]
BadStore(keys) == [k \in keys |-> BadBody(k)]

\* the source contents an invocation is tried on
SourceChoices ==
    { GoodStore({}),
      GoodStore({KeyScenario}),
      GoodStore({KeyEast}),
      BadStore({KeyEast}),
      GoodStore({KeyEast, KeyWest}),
      GoodStore({KeyEast, KeyWest, KeyPlain}),
      GoodStore({KeyEast, KeyAcct2, KeyOld}),
      GoodStore({KeyMarker, KeyPlain}) }

\* an object of the destination store
DestObject(body, content_type) == [Body |-> body, ContentType |-> content_type]

\* the destination contents an invocation starts from: nothing, or an
\* earlier copy of one object
DestChoices ==
    { GoodStore({}),
      [k \in {SubSeq(KeyEast, 1, Len(KeyEast) - 3)} |->
          DestObject(<< "stale" >>, "application/json")] }

ArnChoices == {ArnGood, ArnWithPath, ArnNoBucket, ArnShort}
AccountListChoices ==
    { Empty,
      << " ", ",", " " >>,
      Acct1,
      Acct1 \o << ",", " " >> \o Acct2 \o << "," >>,
      Acct1 \o Comma \o Acct1 }
RegionListChoices == { Empty, UsEast1 }

(***************************************************************************)
(* State                                                                   *)
(***************************************************************************)
VARIABLES
    src,    \* the source bucket: key -> body
    dst,    \* the destination bucket: key -> [Body, ContentType]
    env,    \* os.environ: SOURCE_BUCKET_ARN, ACCOUNT_LIST, REGION_LIST
    now,    \* the clock datetime.now() reads, in ticks
    planned, \* how many invocations there will be, one after the other
    frame,  \* per invocation: the locals of lambda_handler and its position
    hist    \* per invocation: what it has done so far (history only)

vars == << src, dst, env, now, planned, frame, hist >>

Runs == {1, 2}

\* the calls an invocation makes over the network and counts in hist.calls;
\* the list_objects_v2 probes of the prefix resolver are accounted for by
\* hist.resolver_calls, one to Len(common_prefixes) probes to the call
Ops == {"assume_role", "head_bucket", "paginate",
        "head_object", "get_object", "put_object", "copy_object"}
ObjectOps == {"head_object", "get_object", "put_object", "copy_object"}

NoResult == [statusCode |-> 0]
NoBody == NotGz(<< >>)

InitFrame ==
    [pc                 |-> "idle",
     exception          |-> "",
     source_bucket      |-> Empty,
     account_list       |-> << >>,
     region_list        |-> << >>,
     cutoff_date        |-> 0,
     current_date       |-> 0,
     org_prefix         |-> Empty,
     probe              |-> 0,
     account            |-> 0,
     page               |-> 0,
     account_objects    |-> << >>,
     matching_objects   |-> << >>,
     obj                |-> 0,
     compressed_content |-> NoBody,
     copied_files       |-> 0,
     skipped_existing   |-> 0,
     result             |-> NoResult]

InitHist ==
    [calls          |-> [op \in Ops |-> 0],
     resolver_calls |-> 0,
     probe_failed   |-> FALSE,
     loop_fault     |-> "",
     t0             |-> 0,
     t1             |-> 0,
     dates          |-> << >>,
     enumerated     |-> << >>,
     listed         |-> << >>,
     found          |-> 0,
     puts           |-> {}]

\* the first and the last tick of today
ClockChoices == {Today * TicksPerDay, Today * TicksPerDay + (TicksPerDay - 1)}

\* one invocation, on any of the environments
Init ==
    /\ src \in SourceChoices
    /\ dst \in DestChoices
    /\ env \in [SOURCE_BUCKET_ARN : ArnChoices,
                ACCOUNT_LIST      : AccountListChoices,
                REGION_LIST       : RegionListChoices]
    /\ now \in ClockChoices
    /\ planned = 1
    /\ frame = [r \in Runs |-> InitFrame]
    /\ hist = [r \in Runs |-> InitHist]

Terminated(r) == frame[r].pc \in {"returned", "raised"}

\* the invocation is over: it has returned or raised, or the host has cut it
\* off at its timeout
Ended(r) == Terminated(r) \/ frame[r].pc = "timed_out"

(***************************************************************************)
(* lambda_handler, step by step                                            *)
(***************************************************************************)
\* an exception that leaves lambda_handler: the outer try of line 219 has a
\* finally clause only (lines 379-380), so nothing is returned
Raise(r, exception) ==
    frame' = [frame EXCEPT ![r] = [InitFrame EXCEPT !.pc = "raised",
                                                    !.exception = exception]]

\* a return: the result is kept, the locals are gone
Return(r, result) ==
    frame' = [frame EXCEPT ![r] = [InitFrame EXCEPT !.pc = "returned",
                                                    !.result = result]]

\* lines 371-378: an exception inside the try of line 270
Fail(r, error) == Return(r, [statusCode |-> 500, error |-> error])

\* history: one more call of op, and the fault when the call failed inside
\* the loop of line 272
Count(r, op) == hist' = [hist EXCEPT ![r].calls[op] = @ + 1]
CountFault(r, op, fault) ==
    hist' = [hist EXCEPT ![r].calls[op] = @ + 1,
                         ![r].loop_fault = IF fault THEN op ELSE @]

\* lines 219-234: the environment is read and the ARN parsed
ReadEnvironment(r) ==
    /\ frame[r].pc = "idle"
    /\ r <= planned
    /\ LET parsed == parse_s3_arn(env.SOURCE_BUCKET_ARN) IN
       IF parsed.raised
       THEN Raise(r, "ValueError")
       ELSE frame' = [frame EXCEPT
                ![r].pc = "assume_role",
                ![r].account_list = ParseList(env.ACCOUNT_LIST),
                ![r].region_list = ParseList(env.REGION_LIST),
                ![r].source_bucket = parsed.bucket_name]
    /\ UNCHANGED << src, dst, env, now, planned, hist >>

\* an invocation that the host starts once the earlier ones have ended
Start(r) ==
    /\ \A q \in Runs : q < r => Ended(q)
    /\ ReadEnvironment(r)

\* an invocation that the host starts while another one may be running
StartConcurrent(r) == ReadEnvironment(r)

\* lines 242-243, assume_source_role (lines 29-57)
AssumeRole(r) ==
    /\ frame[r].pc = "assume_role"
    /\ \E ok \in BOOLEAN :
          IF ok
          THEN frame' = [frame EXCEPT ![r].pc = "read_clock"]
          ELSE Raise(r, "ClientError")
    /\ Count(r, "assume_role")
    /\ UNCHANGED << src, dst, env, now, planned >>

\* how far the clock can move between the two datetime.now() of lines 250-251
MaxClockStep == 1

\* lines 250-264: the two clock readings and the counters
ReadClock(r) ==
    /\ frame[r].pc = "read_clock"
    /\ \E step \in 0..MaxClockStep :
          /\ now' = now + step
          /\ frame' = [frame EXCEPT
                ![r].pc = "check_source",
                ![r].cutoff_date = now - timedelta(7),
                ![r].current_date = now + step,
                ![r].copied_files = 0,
                ![r].skipped_existing = 0]
          /\ hist' = [hist EXCEPT ![r].t0 = now, ![r].t1 = now + step]
    /\ UNCHANGED << src, dst, env, planned >>

\* check_bucket_access (lines 59-75): whatever head_bucket raises is raised
\* again; a bucket name that names no bucket cannot succeed
HeadBucketOutcomes(bucket, existing) ==
    (IF bucket = existing THEN {"ok"} ELSE {}) \cup {"403", "404", "error"}

\* line 267
CheckSource(r) ==
    /\ frame[r].pc = "check_source"
    /\ \E outcome \in HeadBucketOutcomes(frame[r].source_bucket, BucketName) :
          IF outcome = "ok"
          THEN frame' = [frame EXCEPT ![r].pc = "check_destination"]
          ELSE Raise(r, "ClientError")
    /\ Count(r, "head_bucket")
    /\ UNCHANGED << src, dst, env, now, planned >>

\* line 268
CheckDestination(r) ==
    /\ frame[r].pc = "check_destination"
    /\ \E outcome \in HeadBucketOutcomes(BucketName, BucketName) :
          IF outcome = "ok"
          THEN frame' = [frame EXCEPT ![r].pc = "while"]
          ELSE Raise(r, "ClientError")
    /\ Count(r, "head_bucket")
    /\ UNCHANGED << src, dst, env, now, planned >>

\* a slip: the cutoff date itself is left out
LoopConditionStrict(current_date, cutoff_date) == current_date > cutoff_date

\* line 272: while current_date >= cutoff_date
LoopCondition(current_date, cutoff_date) == current_date >= cutoff_date

\* lines 272-274: one more date to process
EnterDate(r) ==
    /\ frame[r].pc = "while"
    /\ LoopCondition(frame[r].current_date, frame[r].cutoff_date)
    /\ frame' = [frame EXCEPT ![r].pc = "get_date_based_objects",
                              ![r].probe = 1]
    /\ hist' = [hist EXCEPT ![r].dates = Append(@, frame[r].current_date)]
    /\ UNCHANGED << src, dst, env, now, planned >>

\* lines 353-370: the loop is over
ReturnSuccess(r) ==
    /\ frame[r].pc = "while"
    /\ ~LoopCondition(frame[r].current_date, frame[r].cutoff_date)
    /\ Return(r, [statusCode    |-> 200,
                  files_copied  |-> frame[r].copied_files,
                  files_skipped |-> frame[r].skipped_existing,
                  configuration |->
                     [source_bucket |-> frame[r].source_bucket,
                      account_list  |-> frame[r].account_list,
                      region_list   |-> frame[r].region_list]])
    /\ UNCHANGED << src, dst, env, now, planned, hist >>

\* One list_objects_v2 request of get_org_prefix_for_config, called at line
\* 130 (lines 90-111): the requests of one call are separate steps.  When
\* the resolver returns, lines 132-141 follow: an empty account list ends
\* the enumeration at once.
ResolvePrefix(r) ==
    /\ frame[r].pc = "get_date_based_objects"
    /\ \E outcome \in ProbeOutcomes :
          LET p == probe(DOMAIN src, frame[r].probe, outcome) IN
          /\ frame' = IF p.done
                      THEN [frame EXCEPT
                              ![r].pc = IF frame[r].account_list = << >>
                                        THEN "for_obj" ELSE "for_account",
                              ![r].probe = 0,
                              ![r].org_prefix = p.prefix,
                              ![r].account = 1,
                              ![r].page = 0,
                              ![r].account_objects = << >>,
                              ![r].matching_objects = << >>,
                              ![r].obj = 1]
                      ELSE [frame EXCEPT ![r].probe = @ + 1]
          /\ hist' = [hist EXCEPT
                ![r].resolver_calls = IF frame[r].probe = 1 THEN @ + 1 ELSE @,
                ![r].probe_failed = @ \/ p.failed]
    /\ UNCHANGED << src, dst, env, now, planned >>

\* line 144: the i-th account of the iteration over account_list
account_id(account_list, i) == account_list[i]

\* One page of the listing of one account (lines 144-192): the paginator
\* makes one list_objects_v2 request per page, and a listing without keys
\* is one request.  The filtered keys of the pages are collected in
\* account_objects and handed to matching_objects after the last page; after
\* the last account the enumeration returns (lines 194-209 only log).  A
\* failed request is raised again at lines 211-213 and ends the invocation
\* at lines 371-378.
ListAccount(r) ==
    /\ frame[r].pc = "for_account"
    /\ \E ok \in BOOLEAN :
          LET f == frame[r]
              account == account_id(f.account_list, f.account)
              first == f.page = 0
          IN
          IF ok
          THEN LET pages == paginate(DOMAIN src, base_prefix(f.org_prefix, account))
                   page_number == f.page + 1
                   filtered_contents ==
                      IF pages = << >> THEN << >>
                      ELSE FilterPage(pages[page_number],
                                      date_pattern(f.current_date), f.region_list)
                   done == page_number >= Len(pages)
                   last == f.account = Len(f.account_list)
                   found == f.account_objects \o filtered_contents
               IN /\ frame' = IF done
                              THEN [frame EXCEPT
                                      ![r].matching_objects = @ \o found,
                                      ![r].account_objects = << >>,
                                      ![r].page = 0,
                                      ![r].account = @ + 1,
                                      ![r].pc = IF last THEN "for_obj"
                                                ELSE "for_account"]
                              ELSE [frame EXCEPT
                                      ![r].account_objects = found,
                                      ![r].page = page_number]
                  /\ hist' = [hist EXCEPT
                        ![r].calls["paginate"] = IF first THEN @ + 1 ELSE @,
                        ![r].enumerated = IF done THEN @ \o found ELSE @,
                        ![r].listed =
                           IF first
                           THEN Append(@, [date    |-> OrdinalOf(f.current_date),
                                           account |-> account])
                           ELSE @]
          ELSE /\ Fail(r, "paginate")
               /\ hist' = [hist EXCEPT
                     ![r].calls["paginate"] = IF first THEN @ + 1 ELSE @,
                     ![r].listed =
                        IF first
                        THEN Append(@, [date    |-> OrdinalOf(f.current_date),
                                        account |-> account])
                        ELSE @,
                     ![r].loop_fault = "paginate"]
    /\ UNCHANGED << src, dst, env, now, planned >>

\* a slip: the suffix is cut one character short
DestinationKeyShortCut(source_key) ==
    IF EndsWith(source_key, GzSuffix)
    THEN SubSeq(source_key, 1, Len(source_key) - 2)
    ELSE source_key

\* a slip: the suffix stays on the destination key
DestinationKeyUnstripped(source_key) == source_key

\* lines 294-299: the destination key of a source key
DestinationKey(source_key) ==
    IF EndsWith(source_key, GzSuffix)
    THEN SubSeq(source_key, 1, Len(source_key) - 3)
    ELSE source_key

\* line 298: everything the loop body does to an object, the existence
\* check and the transfer (lines 301-348), is nested in this test
IsCompressed(source_key) == EndsWith(source_key, GzSuffix)

\* the object the loop of line 288 stands at
HasObject(r) ==
    /\ frame[r].pc = "for_obj"
    /\ frame[r].obj <= Len(frame[r].matching_objects)
CurrentKey(r) == frame[r].matching_objects[frame[r].obj]

\* lines 288-298 for a key without the suffix: the test of line 298 fails
\* and the loop goes on to the next object.  (The copy_object call of lines
\* 326-335 sits inside the branch of line 298, under a second test of the
\* same suffix at line 315, and is never reached.)
SkipUncompressed(r) ==
    /\ HasObject(r)
    /\ ~IsCompressed(CurrentKey(r))
    /\ frame' = [frame EXCEPT ![r].obj = @ + 1]
    /\ UNCHANGED << src, dst, env, now, planned, hist >>

\* what head_object can answer for a key
HeadObjectOutcomes(key) ==
    IF key \in DOMAIN dst THEN {"ok", "403"} ELSE {"404", "403"}

\* a slip: every error of head_object is taken for 'not found'
ExistenceDecisionSwallow(outcome) ==
    IF outcome = "ok" THEN "skip" ELSE "proceed"

\* a slip: whatever is not a 404 is taken for 'found'
ExistenceDecisionLenient(outcome) ==
    IF outcome = "404" THEN "proceed" ELSE "skip"

\* lines 302-311: what the handler does with the answer of head_object
ExistenceDecision(outcome) ==
    IF outcome = "ok" THEN "skip"
    ELSE IF outcome = "404" THEN "proceed"
    ELSE "abort"

\* lines 298-311: the existence check of a compressed object
HeadObject(r) ==
    /\ HasObject(r)
    /\ IsCompressed(CurrentKey(r))
    /\ \E outcome \in HeadObjectOutcomes(DestinationKey(CurrentKey(r))) :
          LET decision == ExistenceDecision(outcome) IN
          /\ IF decision = "skip"
             THEN frame' = [frame EXCEPT ![r].skipped_existing = @ + 1,
                                         ![r].obj = @ + 1]
             ELSE IF decision = "proceed"
             THEN frame' = [frame EXCEPT ![r].pc = "get_object"]
             ELSE Fail(r, "head_object")
          /\ hist' = [hist EXCEPT
                ![r].calls["head_object"] = @ + 1,
                ![r].loop_fault = IF outcome \notin {"ok", "404"}
                                  THEN "head_object" ELSE @,
                ![r].found = IF outcome = "ok" THEN @ + 1 ELSE @]
    /\ UNCHANGED << src, dst, env, now, planned >>

\* lines 316-317: the compressed body is fetched; a ClientError is raised
\* again at lines 341-348 and ends the invocation at lines 371-378
GetObject(r) ==
    /\ frame[r].pc = "get_object"
    /\ \E outcome \in {"ok", "NoSuchKey", "error"} :
          /\ IF outcome = "ok"
             THEN frame' = [frame EXCEPT
                     ![r].pc = "put_object",
                     ![r].compressed_content = src[CurrentKey(r)]]
             ELSE Fail(r, "get_object")
          /\ CountFault(r, "get_object", outcome # "ok")
    /\ UNCHANGED << src, dst, env, now, planned >>

\* line 324
ContentType == "application/json"

\* lines 318-340: the body is decompressed and put; a body that is no gzip
\* stream raises before put_object is called
PutObject(r) ==
    /\ frame[r].pc = "put_object"
    /\ LET f == frame[r]
           source_key == f.matching_objects[f.obj]
           destination_key == DestinationKey(source_key)
       IN
       IF ~gzip_ok(f.compressed_content)
       THEN /\ Fail(r, "gzip")
            /\ hist' = [hist EXCEPT ![r].loop_fault = "gzip"]
            /\ UNCHANGED dst
       ELSE LET decompressed_content == gzip_decompress(f.compressed_content) IN
            \E ok \in BOOLEAN :
               IF ok
               THEN /\ dst' = [k \in DOMAIN dst \cup {destination_key} |->
                                 IF k = destination_key
                                 THEN DestObject(decompressed_content, ContentType)
                                 ELSE dst[k]]
                    /\ frame' = [frame EXCEPT
                          ![r].pc = "for_obj",
                          ![r].copied_files = @ + 1,
                          ![r].obj = @ + 1,
                          ![r].compressed_content = NoBody]
                    /\ hist' = [hist EXCEPT
                          ![r].calls["put_object"] = @ + 1,
                          ![r].puts = @ \cup
                             {[source_key  |-> source_key,
                               Key         |-> destination_key,
                               Body        |-> decompressed_content,
                               ContentType |-> ContentType]}]
               ELSE /\ Fail(r, "put_object")
                    /\ CountFault(r, "put_object", TRUE)
                    /\ UNCHANGED dst
    /\ UNCHANGED << src, env, now, planned >>

\* line 351: the objects of the date are done, the date moves back one day
EndDate(r) ==
    /\ frame[r].pc = "for_obj"
    /\ frame[r].obj > Len(frame[r].matching_objects)
    /\ frame' = [frame EXCEPT
          ![r].pc = "while",
          ![r].current_date = @ - timedelta(1)]
    /\ UNCHANGED << src, dst, env, now, planned, hist >>

Next ==
    \E r \in Runs :
       \/ Start(r)
       \/ AssumeRole(r)
       \/ ReadClock(r)
       \/ CheckSource(r)
       \/ CheckDestination(r)
       \/ EnterDate(r)
       \/ ReturnSuccess(r)
       \/ ResolvePrefix(r)
       \/ ListAccount(r)
       \/ SkipUncompressed(r)
       \/ HeadObject(r)
       \/ GetObject(r)
       \/ PutObject(r)
       \/ EndDate(r)

Spec == Init /\ [][Next]_vars

\* two invocations in succession on the same stores and environment: an
\* account listed twice, and two accounts with and without an earlier copy
RerunChoices ==
    { [src |-> GoodStore({KeyEast, KeyWest, KeyPlain}),
       dst |-> GoodStore({}),
       ACCOUNT_LIST |-> Acct1 \o Comma \o Acct1] }
    \cup
    { [src |-> GoodStore({KeyEast, KeyAcct2, KeyOld}),
       dst |-> d,
       ACCOUNT_LIST |-> Acct1 \o << ",", " " >> \o Acct2 \o << "," >>]
      : d \in DestChoices }

InitRerun ==
    /\ \E c \in RerunChoices :
          /\ src = c.src
          /\ dst = c.dst
          /\ env = [SOURCE_BUCKET_ARN |-> ArnGood,
                    ACCOUNT_LIST      |-> c.ACCOUNT_LIST,
                    REGION_LIST       |-> UsEast1]
    /\ now = Today * TicksPerDay
    /\ planned = 2
    /\ frame = [r \in Runs |-> InitFrame]
    /\ hist = [r \in Runs |-> InitHist]

SpecRerun == InitRerun /\ [][Next]_vars

\* the steps of lambda_handler after its start
Step(r) ==
    \/ AssumeRole(r)
    \/ ReadClock(r)
    \/ CheckSource(r)
    \/ CheckDestination(r)
    \/ EnterDate(r)
    \/ ReturnSuccess(r)
    \/ ResolvePrefix(r)
    \/ ListAccount(r)
    \/ SkipUncompressed(r)
    \/ HeadObject(r)
    \/ GetObject(r)
    \/ PutObject(r)
    \/ EndDate(r)

\* two invocations at the same time on the same stores and environment,
\* interleaved call by call
InitConcurrent ==
    /\ src = GoodStore({KeyEast, KeyPlain})
    /\ dst = GoodStore({})
    /\ env = [SOURCE_BUCKET_ARN |-> ArnGood,
              ACCOUNT_LIST      |-> Acct1,
              REGION_LIST       |-> UsEast1]
    /\ now = Today * TicksPerDay
    /\ planned = 2
    /\ frame = [r \in Runs |-> InitFrame]
    /\ hist = [r \in Runs |-> InitHist]

NextConcurrent == \E r \in Runs : StartConcurrent(r) \/ Step(r)

SpecConcurrent == InitConcurrent /\ [][NextConcurrent]_vars

\* the host ends an invocation that runs into its timeout: the invocation
\* stops where it stands, nothing is returned, what it has put stays
Timeout(r) ==
    /\ frame[r].pc \notin {"idle", "returned", "raised", "timed_out"}
    /\ frame' = [frame EXCEPT ![r] = [InitFrame EXCEPT !.pc = "timed_out"]]
    /\ UNCHANGED << src, dst, env, now, planned, hist >>

\* two invocations in succession, each of which the host may cut off
InitResume ==
    /\ src = GoodStore({KeyEast, KeyAcct2, KeyPlain})
    /\ dst = GoodStore({})
    /\ env = [SOURCE_BUCKET_ARN |-> ArnGood,
              ACCOUNT_LIST      |-> Acct1 \o Comma \o Acct2,
              REGION_LIST       |-> UsEast1]
    /\ now = Today * TicksPerDay
    /\ planned = 2
    /\ frame = [r \in Runs |-> InitFrame]
    /\ hist = [r \in Runs |-> InitHist]

NextResume == \E r \in Runs : Start(r) \/ Step(r) \/ Timeout(r)

SpecResume == InitResume /\ [][NextResume]_vars

(***************************************************************************)
(* Properties                                                              *)
(***************************************************************************)
Returned(r, status) ==
    /\ frame[r].pc = "returned"
    /\ frame[r].result.statusCode = status

\* the calendar dates an invocation has entered, as day ordinals
DatesOf(r) == [i \in 1..Len(hist[r].dates) |-> OrdinalOf(hist[r].dates[i])]

\* C1: when two invocations in succession over the same date window both
\* return 200, the second one copies nothing and skips as many objects as
\* the first one copied.
C1_Idempotence ==
    (/\ Returned(1, 200)
     /\ Returned(2, 200)
     /\ DatesOf(1) = DatesOf(2))
    => /\ frame[2].result.files_copied = 0
       /\ frame[2].result.files_skipped = frame[1].result.files_copied

\* a pair of invocations against C1, on two different accounts and a
\* destination that was empty: a probe of the resolver raised in the first
\* one, which returned 200 without cfg1.json.gz; the second one copied it
C1_ProbeFault ==
    /\ Returned(1, 200)
    /\ Returned(2, 200)
    /\ DatesOf(1) = DatesOf(2)
    /\ ParseList(env.ACCOUNT_LIST) = << Acct1, Acct2 >>
    /\ hist[1].probe_failed
    /\ ~hist[2].probe_failed
    /\ frame[1].result.files_copied = 1
    /\ frame[1].result.files_skipped = 0
    /\ frame[2].result.files_copied = 1
    /\ frame[2].result.files_skipped = 1

\* a pair of invocations in which no probe raised: an account listed twice
\* (or an earlier copy in the destination) makes the first one skip an
\* object, and the second one skips two where the first one copied one
C1_SkippedTwice ==
    /\ Returned(1, 200)
    /\ Returned(2, 200)
    /\ DatesOf(1) = DatesOf(2)
    /\ ~hist[1].probe_failed
    /\ ~hist[2].probe_failed
    /\ frame[1].result.files_copied = 1
    /\ frame[1].result.files_skipped = 1
    /\ frame[2].result.files_copied = 0
    /\ frame[2].result.files_skipped = 2

\* the keys an invocation has enumerated
EnumeratedKeys(r) == {hist[r].enumerated[i] : i \in 1..Len(hist[r].enumerated)}

\* C2 as stated: an enumerated object whose key does not end in '.gz' is
\* transferred by copy_object to the same key of the destination and
\* counted in files_copied.
C2_UncompressedCopied ==
    \A r \in Runs :
       Returned(r, 200) =>
          \A k \in EnumeratedKeys(r) :
             ~EndsWith(k, GzSuffix) =>
                /\ k \in DOMAIN dst
                /\ hist[r].calls["copy_object"] >= 1
                /\ frame[r].result.files_copied >= 1

\* the environment of the scenario of C3
ScenarioEnv ==
    /\ DOMAIN src = {KeyScenario}
    /\ env.SOURCE_BUCKET_ARN = ArnGood
    /\ env.ACCOUNT_LIST = Acct1
    /\ env.REGION_LIST = UsEast1

\* C3 as stated: in the scenario, started on 2024-03-05 with an empty
\* destination, the invocation returns 200 with files_copied = 1 and the
\* destination holds .../cfg1.json with content type application/json.
C3_Scenario ==
    (/\ ScenarioEnv
     /\ Returned(1, 200)
     /\ ~hist[1].probe_failed
     /\ DatesOf(1)[1] = Today)
    => /\ frame[1].result.files_copied = 1
       /\ DestinationKey(KeyScenario) \in DOMAIN dst
       /\ dst[DestinationKey(KeyScenario)].ContentType = "application/json"

\* the prefix the resolver returns when no probe raises
ResolvedPrefix ==
    get_org_prefix_for_config(DOMAIN src, [i \in 1..2 |-> "ok"]).prefix

\* the source objects C4 speaks of, for one account and one date
Eligible(account, date, region_list) ==
    { k \in DOMAIN src :
         /\ StartsWith(k, ResolvedPrefix \o Slash \o account \o Slash \o ConfigSegment)
         /\ EndsWith(k, GzSuffix)
         /\ Contains(k, date_pattern(date) \o Slash)
         /\ ~Contains(k, WritabilityMarker)
         /\ \/ region_list = << >>
            \/ \E i \in 1..Len(region_list) :
                  Contains(k, << "/" >> \o ConfigSegment \o << "/" >>
                                 \o region_list[i] \o << "/" >>) }

\* C4 as stated: after a return of 200, every eligible source object of every
\* requested account and every date of the window has its key, the suffix
\* cut, in the destination, however many objects the account's listing holds.
C4_Complete ==
    \A r \in Runs :
       (Returned(r, 200) /\ ~hist[r].probe_failed) =>
          \A a \in 1..Len(frame[r].result.configuration.account_list) :
             \A i \in 1..Len(hist[r].dates) :
                \A k \in Eligible(frame[r].result.configuration.account_list[a],
                                  hist[r].dates[i],
                                  frame[r].result.configuration.region_list) :
                   SubSeq(k, 1, Len(k) - 3) \in DOMAIN dst

\* C5: once a call has failed inside the date x object loop (the listing,
\* head_object with a code other than 404, get_object, the decompression,
\* put_object), the invocation has returned 500 with the description of
\* that error, and it makes no further call and no further step.
C5_AbortOnError ==
    /\ [](\A r \in Runs :
             hist[r].loop_fault # "" =>
                /\ Returned(r, 500)
                /\ frame[r].result.error = hist[r].loop_fault)
    /\ [][\A r \in Runs :
             hist[r].loop_fault # "" =>
                /\ hist'[r] = hist[r]
                /\ frame'[r] = frame[r]
                /\ dst' = dst]_vars

\* head_object fails on the second object, after the first one was copied
C5_Witness ==
    /\ hist[1].loop_fault = "head_object"
    /\ hist[1].calls["head_object"] = 2
    /\ hist[1].calls["put_object"] = 1
    /\ Returned(1, 500)

\* C6 as stated: every invocation that ends yields a result with a status
\* code, 200 or a failure status with the error description.
C6_StructuredResult ==
    \A r \in Runs :
       Terminated(r) =>
          /\ frame[r].pc = "returned"
          /\ frame[r].result.statusCode \in {200, 500}

\* the number of colon-delimited fields of a string
FieldCount(str) == Cardinality({i \in 1..Len(str) : str[i] = ":"}) + 1

NoNetworkCall(r) ==
    /\ \A op \in Ops : hist[r].calls[op] = 0
    /\ hist[r].resolver_calls = 0

\* C7 as stated: on "arn:aws:s3:::" parse_s3_arn raises and the invocation
\* ends on it before any network call.
C7_Original ==
    env.SOURCE_BUCKET_ARN = ArnNoBucket =>
       \A r \in Runs :
          frame[r].pc # "idle" =>
             /\ frame[r].pc = "raised"
             /\ frame[r].exception = "ValueError"
             /\ NoNetworkCall(r)

\* C7 as amended: an identifier of fewer than six colon-delimited fields
\* makes parse_s3_arn raise, and the invocation ends on it before any
\* network call; an identifier of six fields or more, "arn:aws:s3:::"
\* included, does not raise the format error.
C7_MalformedArn ==
    \A r \in Runs :
       frame[r].pc # "idle" =>
          IF FieldCount(env.SOURCE_BUCKET_ARN) < 6
          THEN /\ frame[r].pc = "raised"
               /\ frame[r].exception = "ValueError"
               /\ NoNetworkCall(r)
          ELSE frame[r].exception # "ValueError"

\* "arn:aws:s3::" has been rejected
C7_Witness ==
    /\ env.SOURCE_BUCKET_ARN = ArnShort
    /\ frame[1].pc = "raised"
    /\ frame[1].exception = "ValueError"

\* the date patterns of the window that starts on 2024-03-05
WindowOfToday ==
    << Path(DatePath(2024, 3, 5)), Path(DatePath(2024, 3, 4)),
       Path(DatePath(2024, 3, 3)), Path(DatePath(2024, 3, 2)),
       Path(DatePath(2024, 3, 1)), Path(DatePath(2024, 2, 29)),
       Path(DatePath(2024, 2, 28)), Path(DatePath(2024, 2, 27)) >>

\* C8: with the two clock readings t0 <= t1 less than a day apart, the loop
\* enters the calendar dates of t1, t1 - 1 day, ..., one day back at each
\* step, none of them older than the cutoff date, and the invocation that
\* returns 200 has entered exactly the eight dates down to t1 - 7 days.
C8_DateWindow ==
    \A r \in Runs :
       hist[r].t1 - hist[r].t0 < TicksPerDay =>
          /\ \A i \in 1..Len(hist[r].dates) :
                /\ DatesOf(r)[i] = OrdinalOf(hist[r].t1) - (i - 1)
                /\ DatesOf(r)[i] >= OrdinalOf(hist[r].t0) - 7
                /\ OrdinalOf(hist[r].t1) = Today =>
                      date_pattern(hist[r].dates[i]) = WindowOfToday[i]
          /\ Len(hist[r].dates) <= 8
          /\ Returned(r, 200) => Len(hist[r].dates) = 8

\* a finished window whose start fell on the day after the cutoff reading
C8_Witness ==
    /\ Returned(1, 200)
    /\ hist[1].t1 > hist[1].t0
    /\ OrdinalOf(hist[1].t1) = Today + 1
    /\ Len(hist[1].dates) = 8
    /\ DatesOf(1)[8] = Today - 6

\* ACCOUNT_LIST holds blanks and commas only
NoIdentifier(list_str) == \A i \in 1..Len(list_str) : list_str[i] \in {" ", ","}

\* C9: with an ACCOUNT_LIST that yields no account, nothing is enumerated,
\* no head_object, get_object, put_object or copy_object is issued, and the
\* invocation that gets past the bucket checks returns 200 with
\* files_copied = 0 and files_skipped = 0.
C9_EmptyAccountList ==
    \A r \in Runs :
       NoIdentifier(env.ACCOUNT_LIST) =>
          /\ hist[r].enumerated = << >>
          /\ \A op \in ObjectOps : hist[r].calls[op] = 0
          /\ frame[r].pc \notin {"for_account", "get_object", "put_object"}
          /\ frame[r].pc = "returned" =>
                /\ frame[r].result.statusCode = 200
                /\ frame[r].result.files_copied = 0
                /\ frame[r].result.files_skipped = 0

\* a finished invocation on ACCOUNT_LIST = " , " and a source with objects
C9_Witness ==
    /\ env.ACCOUNT_LIST # Empty
    /\ NoIdentifier(env.ACCOUNT_LIST)
    /\ KeyEast \in DOMAIN src
    /\ Returned(1, 200)
    /\ hist[1].resolver_calls = 8

\* C10: every put of an invocation is for a source key ending in '.gz', to
\* the key that is the source key without its last three characters, with
\* the decompressed source body and the content type application/json.
C10_CompressedTransfer ==
    \A r \in Runs :
       \A p \in hist[r].puts :
          /\ EndsWith(p.source_key, << ".", "g", "z" >>)
          /\ p.Key \o << ".", "g", "z" >> = p.source_key
          /\ p.source_key \in DOMAIN src
          /\ src[p.source_key] = Gz(p.Body)
          /\ p.ContentType = "application/json"
          /\ p.Key \in DOMAIN dst
          /\ planned = 1 => dst[p.Key] = DestObject(p.Body, "application/json")

\* .../cfg1.json.gz has been put as .../cfg1.json
C10_Witness ==
    \E p \in hist[1].puts :
       /\ p.source_key = KeyEast
       /\ EndsWith(p.Key, << "c", "f", "g", "1", ".", "j", "s", "o", "n" >>)
       /\ dst[p.Key].Body = << "json", KeyEast >>
       /\ Returned(1, 200)

\* the keys the listing of an account delivers to the filter: the keys
\* under the account's listing prefix, up to the listing limit
ListedKeys(r, account) ==
    LET listing == ListKeys(DOMAIN src, frame[r].org_prefix \o << "/" >>
                                        \o account \o << "/", "C", "o", "n", "f", "i", "g" >>)
    IN {listing[i] : i \in 1..(IF Len(listing) < MaxItems THEN Len(listing) ELSE MaxItems)}

\* the keys get_date_based_objects has returned for the current date
MatchingKeys(r) ==
    {frame[r].matching_objects[i] : i \in 1..Len(frame[r].matching_objects)}

\* key contains '/Config/<region>/'
InRegion(key, region) ==
    Contains(key, << "/", "C", "o", "n", "f", "i", "g", "/" >> \o region \o << "/" >>)

\* key contains '<year>/<month>/<day>/' of the date and not the marker
DateMatches(key, date) ==
    /\ Contains(key, date_pattern(date) \o << "/" >>)
    /\ ~Contains(key, WritabilityMarker)

\* C11: when the enumeration of a date is done, a listed key that matches
\* the date (and is not the writability marker) has been returned if and only
\* if the region list is empty or the key contains '/Config/<region>/' for
\* one of its regions; with {us-east-1} no key of us-west-2 is returned.
C11_RegionFilter ==
    \A r \in Runs :
       frame[r].pc = "for_obj" =>
          /\ \A a \in 1..Len(frame[r].account_list) :
                \A k \in ListedKeys(r, frame[r].account_list[a]) :
                   DateMatches(k, frame[r].current_date) =>
                      (k \in MatchingKeys(r) <=>
                         \/ frame[r].region_list = << >>
                         \/ \E i \in 1..Len(frame[r].region_list) :
                               InRegion(k, frame[r].region_list[i]))
          /\ frame[r].region_list = << UsEast1 >> =>
                \A k \in MatchingKeys(r) :
                   InRegion(k, UsEast1) /\ ~InRegion(k, UsWest2)

\* with {us-east-1}, both keys listed and of the date: the key of
\* us-east-1 is returned, the key of us-west-2 is not
C11_Witness ==
    /\ frame[1].pc = "for_obj"
    /\ frame[1].region_list = << UsEast1 >>
    /\ {KeyEast, KeyWest} \subseteq ListedKeys(1, Acct1)
    /\ DateMatches(KeyWest, frame[1].current_date)
    /\ KeyEast \in MatchingKeys(1)
    /\ KeyWest \notin MatchingKeys(1)

\* with an empty region list, a key of us-west-2 is returned
C11_WitnessNoRegions ==
    /\ frame[1].pc = "for_obj"
    /\ frame[1].region_list = << >>
    /\ KeyWest \in MatchingKeys(1)

\* the '.gz' keys a run alone returns from its enumerations over the dates
\* of invocation r when no probe raises
SoloKeys(r) ==
    { k \in DOMAIN src :
         /\ EndsWith(k, << ".", "g", "z" >>)
         /\ \E i \in 1..Len(hist[r].dates) :
               \E a \in 1..Len(ParseList(env.ACCOUNT_LIST)) :
                  LET found == account_objects(DOMAIN src, ResolvedPrefix,
                                  ParseList(env.ACCOUNT_LIST)[a], hist[r].dates[i],
                                  ParseList(env.REGION_LIST))
                  IN \E j \in 1..Len(found) : found[j] = k }

\* what one run alone leaves in an empty destination
SoloResult(r) ==
    [d \in {SubSeq(k, 1, Len(k) - 3) : k \in SoloKeys(r)} |->
        [Body        |-> src[d \o << ".", "g", "z" >>].data,
         ContentType |-> "application/json"]]

C12_BothMissed ==
    /\ Returned(1, 200)
    /\ Returned(2, 200)
    /\ DatesOf(1) = DatesOf(2)
    /\ hist[1].probe_failed
    /\ hist[2].probe_failed
    /\ dst = GoodStore({})
    /\ Cardinality(DOMAIN SoloResult(1)) = 1

\* the race of C12: both invocations have found the key missing and both
\* have put it, two files copied for one key, and the destination is what
\* one invocation alone leaves
C12_Race ==
    /\ Returned(1, 200)
    /\ Returned(2, 200)
    /\ DatesOf(1) = DatesOf(2)
    /\ ~hist[1].probe_failed
    /\ ~hist[2].probe_failed
    /\ frame[1].result.files_copied = 1
    /\ frame[2].result.files_copied = 1
    /\ Cardinality(DOMAIN dst) = 1
    /\ dst = SoloResult(1)

\* invocation 1 wrote nothing, or both invocations went over the same dates
SameWindow ==
    \/ hist[1].puts = {}
    \/ OrdinalOf(hist[1].t1) = OrdinalOf(hist[2].t1)

\* C13: whatever an invocation has put is in the destination from then on,
\* also when the invocation is cut off or ends in a failure.  When a second
\* invocation over the same dates follows on the unchanged source and
\* returns 200, it puts none of the keys the first one put, fetches only
\* the others, counts exactly the first one's objects as skipped, and
\* leaves the destination as one invocation alone does.
C13_Resume ==
    /\ \A p \in hist[1].puts :
          /\ p.Key \in DOMAIN dst
          /\ dst[p.Key] = DestObject(p.Body, p.ContentType)
    /\ (/\ Ended(1)
        /\ Returned(2, 200)
        /\ SameWindow)
       => /\ \A p \in hist[1].puts : \A q \in hist[2].puts : p.Key # q.Key
          /\ frame[2].result.files_skipped = Cardinality(hist[1].puts)
          /\ hist[2].calls["get_object"]
                = Cardinality(SoloKeys(2)) - Cardinality(hist[1].puts)
          /\ hist[2].calls["put_object"] = hist[2].calls["get_object"]
          /\ dst = SoloResult(2)

\* two invocations against C13: the first one was cut off after it had put
\* cfg1.json; in the second one a probe of the resolver raised on the date
\* of that object, and it returned 200 without having counted it as skipped
C13_ProbeFault ==
    /\ frame[1].pc = "timed_out"
    /\ Cardinality(hist[1].puts) = 1
    /\ Returned(2, 200)
    /\ SameWindow
    /\ hist[2].probe_failed
    /\ frame[2].result.files_skipped = 0

\* the first invocation was cut off after it had put one of the two objects;
\* the second one, no probe of which raised, skipped that object, copied the
\* other and returned 200
C13_CutOff ==
    /\ frame[1].pc = "timed_out"
    /\ Cardinality(hist[1].puts) = 1
    /\ Returned(2, 200)
    /\ SameWindow
    /\ ~hist[2].probe_failed
    /\ frame[2].result.files_skipped = 1
    /\ frame[2].result.files_copied = 1
    /\ Cardinality(DOMAIN dst) = 2
    /\ dst = SoloResult(2)

\* the same after a first invocation that ended in a failure result
C13_Aborted ==
    /\ Returned(1, 500)
    /\ Cardinality(hist[1].puts) = 1
    /\ Returned(2, 200)
    /\ SameWindow
    /\ ~hist[2].probe_failed
    /\ frame[2].result.files_skipped = 1
    /\ frame[2].result.files_copied = 1
    /\ dst = SoloResult(2)

\* key lies in the Config subtree of the account
OfAccount(key, account) ==
    Contains(key, << "/" >> \o account \o << "/", "C", "o", "n", "f", "i", "g", "/" >>)

\* the keys of the whole bucket that pass the account, date, marker and
\* region predicates of invocation r on its current date
WholeBucketKeys(r) ==
    { k \in DOMAIN src :
         /\ \E a \in 1..Len(frame[r].account_list) :
               OfAccount(k, frame[r].account_list[a])
         /\ DateMatches(k, frame[r].current_date)
         /\ \/ frame[r].region_list = << >>
            \/ \E i \in 1..Len(frame[r].region_list) :
                  InRegion(k, frame[r].region_list[i]) }

\* C14: when the resolver has returned the empty prefix, the enumeration of
\* a date returns the keys of the whole bucket that pass the account, date,
\* marker and region predicates.
C14_EmptyPrefixFallback ==
    \A r \in Runs :
       (/\ frame[r].pc = "for_obj"
        /\ frame[r].account_list # << >>
        /\ frame[r].org_prefix = << >>)
       => MatchingKeys(r) = WholeBucketKeys(r)

\* the calls of op invocation r makes in a step
CallsIn(r, op) == hist'[r].calls[op] - hist[r].calls[op]

\* what a step of invocation r that probes the destination does
ProbeStep(r) ==
    LET destination_key == SubSeq(CurrentKey(r), 1, Len(CurrentKey(r)) - 3) IN
    /\ frame[r].pc = "for_obj"
    /\ EndsWith(CurrentKey(r), << ".", "g", "z" >>)
    /\ CallsIn(r, "get_object") = 0
    /\ CallsIn(r, "put_object") = 0
    /\ dst' = dst
    /\ \/ /\ destination_key \in DOMAIN dst
          /\ frame'[r].pc = "for_obj"
          /\ frame'[r].obj = frame[r].obj + 1
          /\ frame'[r].skipped_existing = frame[r].skipped_existing + 1
          /\ frame'[r].copied_files = frame[r].copied_files
       \/ /\ destination_key \notin DOMAIN dst
          /\ frame'[r].pc = "get_object"
          /\ frame'[r].obj = frame[r].obj
          /\ frame'[r].skipped_existing = frame[r].skipped_existing
          /\ frame'[r].copied_files = frame[r].copied_files
       \/ /\ frame'[r].pc = "returned"
          /\ frame'[r].result = [statusCode |-> 500, error |-> "head_object"]

\* C15: a compressed candidate is probed at the destination, under its key
\* without the suffix, before anything is transferred: a step that calls
\* head_object calls it once and calls neither get_object nor put_object;
\* when the object is there the candidate is passed over with
\* files_skipped one higher, when it is not there (404) the fetch comes next,
\* and on any other answer the invocation ends with a failure result.  A
\* fetch is made only after such a 404, a put only after the fetch.
C15_TransferDecision ==
    [][/\ \A r \in Runs :
             /\ CallsIn(r, "head_object") \in {0, 1}
             /\ CallsIn(r, "head_object") = 1 => ProbeStep(r)
             /\ (frame'[r].pc = "get_object" /\ frame[r].pc # "get_object")
                   => CallsIn(r, "head_object") = 1
             /\ CallsIn(r, "get_object") # 0 => frame[r].pc = "get_object"
             /\ (frame'[r].pc = "put_object" /\ frame[r].pc # "put_object")
                   => (frame[r].pc = "get_object" /\ CallsIn(r, "get_object") = 1)
             /\ CallsIn(r, "put_object") # 0 => frame[r].pc = "put_object"
       /\ dst' # dst => \E r \in Runs : CallsIn(r, "put_object") = 1]_vars

\* one candidate was found at the destination and passed over, the next one
\* was not found and is about to be fetched
C15_Witness ==
    /\ frame[1].pc = "get_object"
    /\ frame[1].skipped_existing = 1
    /\ hist[1].calls["head_object"] = 2
    /\ hist[1].calls["get_object"] = 0
    /\ hist[1].calls["put_object"] = 0

\* the probe answered with another error: a failure result, nothing fetched
C15_WitnessAbort ==
    /\ Returned(1, 500)
    /\ hist[1].loop_fault = "head_object"
    /\ hist[1].calls["head_object"] = 1
    /\ hist[1].calls["get_object"] = 0
    /\ hist[1].calls["put_object"] = 0

\* the listings of (date, account) an invocation has issued so far
ListingsOf(r, date, account) ==
    {j \in 1..Len(hist[r].listed) :
        hist[r].listed[j] = [date |-> date, account |-> account]}

\* C16: an invocation that returns 200 has issued the listing exactly once
\* for every pair of a date it entered and an account of the account list,
\* and within one date in the order of the account list.
C16_ListingOrder ==
    \A r \in Runs :
       Returned(r, 200) =>
          LET accounts == ParseList(env.ACCOUNT_LIST)
              n == Len(accounts)
          IN /\ \A i \in 1..Len(hist[r].dates) :
                   \A a \in 1..n :
                      Cardinality(ListingsOf(r, DatesOf(r)[i], accounts[a])) = 1
             /\ \A j \in 1..Len(hist[r].listed) :
                   /\ ((j - 1) \div n) + 1 <= Len(hist[r].dates)
                   /\ hist[r].listed[j] =
                         [date    |-> DatesOf(r)[((j - 1) \div n) + 1],
                          account |-> accounts[((j - 1) % n) + 1]]

\* an invocation against C16: the account list names one account twice, and
\* the invocation that returned 200 has listed it twice for today
C16_ListedTwice ==
    /\ Returned(1, 200)
    /\ ParseList(env.ACCOUNT_LIST) = << Acct1, Acct1 >>
    /\ Len(hist[1].listed) = 16
    /\ Cardinality(ListingsOf(1, Today, Acct1)) = 2

\* an invocation over two different accounts that returned 200: sixteen
\* listings, the accounts in the order of the list within each date
C16_TwoAccounts ==
    /\ Returned(1, 200)
    /\ ParseList(env.ACCOUNT_LIST) = << Acct1, Acct2 >>
    /\ Len(hist[1].listed) = 16
    /\ hist[1].listed[1].account = Acct1
    /\ hist[1].listed[2].account = Acct2
    /\ hist[1].listed[1].date = hist[1].listed[2].date
    /\ hist[1].listed[3].date = hist[1].listed[1].date - 1

\* the destination keys that belong to the '.gz' keys the enumerations of
\* the invocations have returned so far
DerivedKeysOf(r) ==
    { SubSeq(hist[r].enumerated[j], 1, Len(hist[r].enumerated[j]) - 3) :
         j \in { i \in 1..Len(hist[r].enumerated) :
                    EndsWith(hist[r].enumerated[i], << ".", "g", "z" >>) } }
DerivedKeys == UNION { DerivedKeysOf(r) : r \in Runs }

\* C17: no step of an invocation, the failing ones included, changes the
\* source bucket; no step removes an object from the destination bucket, and
\* an object of the destination that a step adds or changes lies under the
\* destination key of a source key the enumeration has returned.
C17_Frame ==
    [][/\ src' = src
       /\ DOMAIN dst \subseteq DOMAIN dst'
       /\ \A k \in DOMAIN dst' :
             \/ k \in DOMAIN dst /\ dst'[k] = dst[k]
             \/ k \in DerivedKeys]_vars

\* a finished invocation that has put one object next to an object that was
\* in the destination before and is still there as it was
C17_Witness ==
    /\ Returned(1, 200)
    /\ Cardinality(hist[1].puts) = 1
    /\ Cardinality(DOMAIN dst) = 2
    /\ \E k \in DOMAIN dst : k \notin {p.Key : p \in hist[1].puts}
    /\ \A p \in hist[1].puts : p.Key \in DerivedKeys /\ p.Key \in DOMAIN dst

\* C18: the prefix resolver is invoked once during an invocation: never a
\* second time, and exactly once in an invocation that returns 200 for a
\* non-empty window.
C18_ResolverOnce ==
    \A r \in Runs :
       /\ hist[r].resolver_calls <= 1
       /\ Returned(r, 200) => hist[r].resolver_calls = 1

\* invocation r is inside the try of line 270 with its counters
InLoop(r) ==
    frame[r].pc \in {"while", "get_date_based_objects", "for_account",
                     "for_obj", "get_object", "put_object"}

\* the number of '.gz' keys among the first n keys of a sequence
RECURSIVE CompressedAmong(_, _)
CompressedAmong(keys, n) ==
    IF n = 0 THEN 0
    ELSE CompressedAmong(keys, n - 1)
         + (IF EndsWith(keys[n], << ".", "g", "z" >>) THEN 1 ELSE 0)

\* the counters of invocation r agree with what it has done
CountersAgree(r) ==
    /\ InLoop(r) =>
          /\ frame[r].copied_files = Cardinality(hist[r].puts)
          /\ frame[r].skipped_existing = hist[r].found
    /\ Returned(r, 200) =>
          /\ frame[r].result.files_copied = Cardinality(hist[r].puts)
          /\ frame[r].result.files_skipped = hist[r].found
          /\ frame[r].result.files_copied + frame[r].result.files_skipped
                = CompressedAmong(hist[r].enumerated, Len(hist[r].enumerated))

\* a step inside the loop moves at most one counter, by one, and only when
\* it is done with a '.gz' descriptor
CounterStep(r) ==
    (InLoop(r) /\ frame'[r].pc \in {"while", "get_date_based_objects",
                                    "for_account", "for_obj", "get_object",
                                    "put_object"})
    => LET copied == frame'[r].copied_files - frame[r].copied_files
           skipped == frame'[r].skipped_existing - frame[r].skipped_existing
       IN /\ << copied, skipped >> \in {<< 0, 0 >>, << 1, 0 >>, << 0, 1 >>}
          /\ copied + skipped = 1 =>
                /\ frame[r].pc \in {"for_obj", "put_object"}
                /\ frame'[r].obj = frame[r].obj + 1
                /\ EndsWith(frame[r].matching_objects[frame[r].obj],
                            << ".", "g", "z" >>)
          /\ (/\ frame[r].pc \in {"for_obj", "put_object"}
              /\ frame'[r].obj = frame[r].obj + 1
              /\ ~EndsWith(frame[r].matching_objects[frame[r].obj],
                           << ".", "g", "z" >>))
                => copied + skipped = 0

\* C19: in every state of an invocation files_copied is the number of puts
\* it has completed and files_skipped the number of head_object answers that
\* found the object; a descriptor moves at most one of the two counters, by
\* one; and in the result of an invocation that returns 200 the two add up
\* to the number of '.gz' keys its enumerations returned.
C19_Counters ==
    /\ [](\A r \in Runs : CountersAgree(r))
    /\ [][\A r \in Runs : CounterStep(r)]_vars

\* a finished invocation that copied one object and skipped one, with two
\* uncompressed keys among the four descriptors it enumerated
C19_Witness ==
    /\ Returned(1, 200)
    /\ frame[1].result.files_copied = 1
    /\ frame[1].result.files_skipped = 1
    /\ hist[1].found = 1
    /\ Cardinality(hist[1].puts) = 1
    /\ Len(hist[1].enumerated) = 4
    /\ CompressedAmong(hist[1].enumerated, 4) = 2

====
